---- MODULE Spec2Model ----
(***************************************************************************)
(* Model of ironic/common/fsm.py (class FSM): the state table, the         *)
(* transition table, the cursor (_current, _target_state), the frozen flag *)
(* and the definition / execution API, one action per public method.       *)
(***************************************************************************)
EXTENDS Integers, Sequences, FiniteSets, TLC

\* Python's None.  states.py uses None itself as a state name (NOSTATE).
None == "None"

\* ---------------------------------------------------------------------
\* Input menus (the arguments the actions are called with)
\* ---------------------------------------------------------------------
Names == {"a", "b", "c"}
Events == {"e", "f"}
\* The events the calling program registers edges and reactions for.
EdgeEvents == {"e"}
Machines == {1, 2}
\* The generator objects run_iter() is called for.
Runners == {1, 2}

Reactions == {"r1"}

\* The states the calling program defines: add_state is called with these
\* arguments for each name (in any order, any number of times).
StateDefs ==
    [s \in Names |->
        CASE s = "a" -> [terminal |-> FALSE, on_enter |-> "enter_a",
                         on_exit |-> "exit_a", target |-> "b"]
          [] s = "b" -> [terminal |-> FALSE, on_enter |-> None,
                         on_exit |-> None, target |-> "c"]
          [] OTHER   -> [terminal |-> TRUE, on_enter |-> "enter_c",
                         on_exit |-> None, target |-> None]]

\* Largest number of states / edges / reaction bindings a table is grown to.
MaxStates == 3
MaxEdges == 2
MaxReactions == 1
MaxTrail == 6
\* Longest event sequence two machines are compared on.
MaxDrive == 2

\* fsm: the FSM objects; heap: the (_states, _transitions) dict pairs they
\* refer to; run: the generators made by run_iter(); last, calls: what the
\* caller saw of the last call and the callbacks it made; origin: how each
\* FSM object was made ("none", "new", "shallow" or "deep").
VARIABLES fsm, heap, last, calls, run, origin, trail
vars == <<fsm, heap, last, calls, run, origin, trail>>

\* ---------------------------------------------------------------------
\* Data
\* ---------------------------------------------------------------------
\* class _Jump
Jump(name, on_enter, on_exit) == [name |-> name, on_enter |-> on_enter, on_exit |-> on_exit]

\* An FSM object that has not been constructed yet.
NoFSM == [exists |-> FALSE, start_state |-> None, target_state |-> None,
          current |-> <<>>, frozen |-> FALSE, tab |-> 0]

\* FSM.__init__: empty tables, no cursor, not frozen.  _current is modelled
\* as an optional _Jump: <<>> is None, <<j>> is the _Jump j.
NewFSM(start_state, tab) ==
    [exists |-> TRUE, start_state |-> start_state, target_state |-> None,
     current |-> <<>>, frozen |-> FALSE, tab |-> tab]

\* The pair of dicts (_states, _transitions) created by one __init__.
\* _states is an OrderedDict: a sequence of entries with unique names.
\* _transitions maps each defined state to an OrderedDict event -> _Jump.
EmptyTables == [states |-> <<>>, transitions |-> <<>>]

\* `state in self._states`
Contains(t, state) == \E i \in DOMAIN t.states : t.states[i].name = state

\* `self._states[state]`
StateData(t, state) ==
    t.states[CHOOSE i \in DOMAIN t.states : t.states[i].name = state]

\* `self._transitions[state]` (an OrderedDict, as a sequence of entries)
TransOf(t, state) ==
    t.transitions[CHOOSE i \in DOMAIN t.states : t.states[i].name = state]

\* `event in self._transitions[state]`
HasEvent(t, state, event) ==
    \E i \in DOMAIN TransOf(t, state) : TransOf(t, state)[i].event = event

\* `self._transitions[state][event]`
JumpOf(t, state, event) ==
    LET tr == TransOf(t, state)
    IN tr[CHOOSE i \in DOMAIN tr : tr[i].event = event].jump

\* FSM.current_state
current_state(f) == IF f.current # <<>> THEN f.current[1].name ELSE None

\* FSM.target_state
target_state(f) == f.target_state

\* terminated answering whether the current state has no edge to leave by
terminated_no_outgoing(f, t) ==
    IF f.current = <<>> THEN FALSE ELSE TransOf(t, f.current[1].name) = <<>>

\* FSM.terminated
terminated(f, t) ==
    IF f.current = <<>> THEN FALSE ELSE StateData(t, f.current[1].name).terminal

\* FSM.states
states(t) == [i \in DOMAIN t.states |-> t.states[i].name]

\* FSM.__iter__, as the set of (start, event, end) tuples it yields
Edges(t) ==
    UNION {{<<t.states[i].name, t.transitions[i][k].event, t.transitions[i][k].jump.name>> :
                k \in DOMAIN t.transitions[i]} : i \in DOMAIN t.states}

\* FSM.events
events(t) == Cardinality(Edges(t))

NumReactions(t) ==
    Cardinality({<<i, ev>> \in (DOMAIN t.states) \X Events :
                    ev \in DOMAIN t.states[i].reactions})

\* The outcome of one call: the objects after it, what it raised ("ok" when
\* it returned), what it returned, and the hook calls it made.
Outcome(F, H, result) ==
    [fsm |-> F, heap |-> H, result |-> result, ret_bool |-> FALSE,
     ret_reaction |-> <<>>, calls |-> <<>>]

\* ---------------------------------------------------------------------
\* Definition API
\* ---------------------------------------------------------------------
\* add_state replacing the data of a state that is already defined
add_state_replaces(F, H, m, state, terminal, on_enter, on_exit, target) ==
    LET t == H[F[m].tab]
        data == [name |-> state, terminal |-> terminal, reactions |-> <<>>,
                 on_enter |-> on_enter, on_exit |-> on_exit, target |-> target]
        i == CHOOSE i \in DOMAIN t.states : t.states[i].name = state
    IN IF F[m].frozen THEN Outcome(F, H, "FrozenMachine")
       ELSE IF target # None /\ ~Contains(t, target) THEN Outcome(F, H, "InvalidState")
       ELSE IF Contains(t, state)
       THEN Outcome(F, [H EXCEPT ![F[m].tab].states[i] = data,
                                 ![F[m].tab].transitions[i] = <<>>], "Duplicate")
       ELSE Outcome(F,
               [H EXCEPT ![F[m].tab] =
                   [states |-> Append(t.states, data),
                    transitions |-> Append(t.transitions, <<>>)]],
               "ok")

\* FSM.add_state
add_state(F, H, m, state, terminal, on_enter, on_exit, target) ==
    LET t == H[F[m].tab]
    IN IF F[m].frozen THEN Outcome(F, H, "FrozenMachine")
       ELSE IF Contains(t, state) THEN Outcome(F, H, "Duplicate")
       ELSE IF target # None /\ ~Contains(t, target) THEN Outcome(F, H, "InvalidState")
       ELSE Outcome(F,
               [H EXCEPT ![F[m].tab] =
                   [states |-> Append(t.states,
                                 [name |-> state, terminal |-> terminal,
                                  reactions |-> <<>>, on_enter |-> on_enter,
                                  on_exit |-> on_exit, target |-> target]),
                    transitions |-> Append(t.transitions, <<>>)]],
               "ok")

\* add_reaction binding the new callback over the one already bound
add_reaction_overwrites(F, H, m, state, event, reaction, args, kwargs) ==
    LET t == H[F[m].tab]
        i == CHOOSE i \in DOMAIN t.states : t.states[i].name = state
        rest == [ev \in DOMAIN t.states[i].reactions \ {event} |-> t.states[i].reactions[ev]]
    IN IF F[m].frozen THEN Outcome(F, H, "FrozenMachine")
       ELSE IF ~Contains(t, state) THEN Outcome(F, H, "NotFound")
       ELSE Outcome(F,
               [H EXCEPT ![F[m].tab].states[i].reactions =
                   (event :> <<reaction, args, kwargs>>) @@ rest],
               IF event \in DOMAIN t.states[i].reactions THEN "Duplicate" ELSE "ok")

\* FSM.add_reaction
add_reaction(F, H, m, state, event, reaction, args, kwargs) ==
    LET t == H[F[m].tab]
        i == CHOOSE i \in DOMAIN t.states : t.states[i].name = state
    IN IF F[m].frozen THEN Outcome(F, H, "FrozenMachine")
       ELSE IF ~Contains(t, state) THEN Outcome(F, H, "NotFound")
       ELSE IF event \notin DOMAIN t.states[i].reactions
       THEN Outcome(F,
               [H EXCEPT ![F[m].tab].states[i].reactions =
                   (event :> <<reaction, args, kwargs>>) @@ t.states[i].reactions],
               "ok")
       ELSE Outcome(F, H, "Duplicate")

\* `d.setdefault(event, jump)`: an existing key keeps its value
OrderedSet_keeps_first(d, event, jump) ==
    IF \E k \in DOMAIN d : d[k].event = event
    THEN d
    ELSE Append(d, [event |-> event, jump |-> jump])

\* `d[event] = jump` on an OrderedDict: an existing key keeps its place.
OrderedSet(d, event, jump) ==
    IF \E k \in DOMAIN d : d[k].event = event
    THEN [k \in DOMAIN d |-> IF d[k].event = event
                             THEN [event |-> event, jump |-> jump] ELSE d[k]]
    ELSE Append(d, [event |-> event, jump |-> jump])

\* add_transition storing the edge before it looks at the end state
add_transition_partial(F, H, m, start, end, event) ==
    LET t == H[F[m].tab]
        i == CHOOSE i \in DOMAIN t.states : t.states[i].name = start
        on_enter == IF Contains(t, end) THEN StateData(t, end).on_enter ELSE None
        stored == [H EXCEPT ![F[m].tab].transitions[i] =
                      OrderedSet(t.transitions[i], event,
                                 Jump(end, on_enter, StateData(t, start).on_exit))]
    IN IF F[m].frozen THEN Outcome(F, H, "FrozenMachine")
       ELSE IF ~Contains(t, start) THEN Outcome(F, H, "NotFound")
       ELSE IF ~Contains(t, end) THEN Outcome(F, stored, "NotFound")
       ELSE Outcome(F, stored, "ok")

\* FSM.add_transition
add_transition(F, H, m, start, end, event) ==
    LET t == H[F[m].tab]
        i == CHOOSE i \in DOMAIN t.states : t.states[i].name = start
    IN IF F[m].frozen THEN Outcome(F, H, "FrozenMachine")
       ELSE IF ~Contains(t, start) THEN Outcome(F, H, "NotFound")
       ELSE IF ~Contains(t, end) THEN Outcome(F, H, "NotFound")
       ELSE Outcome(F,
               [H EXCEPT ![F[m].tab].transitions[i] =
                   OrderedSet(t.transitions[i], event,
                              Jump(end, StateData(t, end).on_enter,
                                   StateData(t, start).on_exit))],
               "ok")

\* freeze() flipping the flag instead of setting it
freeze_toggle(F, H, m) == Outcome([F EXCEPT ![m].frozen = ~F[m].frozen], H, "ok")

\* FSM.freeze
freeze(F, H, m) == Outcome([F EXCEPT ![m].frozen = TRUE], H, "ok")

\* ---------------------------------------------------------------------
\* Execution API
\* ---------------------------------------------------------------------
\* FSM.initialize
initialize(F, H, m, state_arg) ==
    LET t == H[F[m].tab]
        state == IF state_arg = None THEN F[m].start_state ELSE state_arg
    IN IF ~Contains(t, state) THEN Outcome(F, H, "NotFound")
       ELSE IF ~Contains(t, F[m].start_state) THEN Outcome(F, H, "KeyError")
       ELSE IF StateData(t, F[m].start_state).terminal THEN Outcome(F, H, "InvalidState")
       ELSE Outcome([F EXCEPT ![m].current = <<Jump(state, None, None)>>], H, "ok")

\* test_event without the terminal check
test_event_no_terminal(F, H, m, event) ==
    LET t == H[F[m].tab]
        current == F[m].current
    IN IF current = <<>> THEN FALSE
       ELSE IF ~HasEvent(t, current[1].name, event) THEN FALSE
       ELSE TRUE

\* test_event asking whether the event leaves any state at all
test_event_any_state(F, H, m, event) ==
    LET t == H[F[m].tab]
    IN \E i \in DOMAIN t.states : HasEvent(t, t.states[i].name, event)

\* FSM.test_event
test_event(F, H, m, event) ==
    LET t == H[F[m].tab]
        current == F[m].current
    IN IF current = <<>> THEN FALSE
       ELSE IF StateData(t, current[1].name).terminal THEN FALSE
       ELSE IF ~HasEvent(t, current[1].name, event) THEN FALSE
       ELSE TRUE

\* The checks raising NotFound (as add_transition does) for a missing edge
Rejected_notfound(F, H, m, event) ==
    LET t == H[F[m].tab]
        current == F[m].current
    IN IF current = <<>> THEN "InvalidState"
       ELSE IF StateData(t, current[1].name).terminal THEN "InvalidState"
       ELSE IF ~HasEvent(t, current[1].name, event) THEN "NotFound"
       ELSE "ok"

\* The checks without the terminal check
Rejected_from_terminal(F, H, m, event) ==
    LET t == H[F[m].tab]
        current == F[m].current
    IN IF current = <<>> THEN "InvalidState"
       ELSE IF ~HasEvent(t, current[1].name, event) THEN "InvalidState"
       ELSE "ok"

\* FSM.process_event, the checks before `replacement` is looked up: the
\* exception raised, "ok" when all three checks pass.
Rejected(F, H, m, event) ==
    LET t == H[F[m].tab]
        current == F[m].current
    IN IF current = <<>> THEN "InvalidState"
       ELSE IF StateData(t, current[1].name).terminal THEN "InvalidState"
       ELSE IF ~HasEvent(t, current[1].name, event) THEN "InvalidState"
       ELSE "ok"

\* The hook calls with the enter hook called first
HookCalls_enter_first(current, replacement, event, exitOk, enterOk) ==
    LET c1 == IF current.on_exit # None
              THEN <<[site |-> "on_exit", hook |-> current.on_exit, state |-> current.name,
                      event |-> event, cursor |-> current.name]>>
              ELSE <<>>
        raised1 == current.on_exit # None /\ ~exitOk
        c2 == IF replacement.on_enter # None
              THEN <<[site |-> "on_enter", hook |-> replacement.on_enter, state |-> replacement.name,
                      event |-> event, cursor |-> current.name]>>
              ELSE <<>>
        raised2 == replacement.on_enter # None /\ ~enterOk
    IN IF raised2 THEN [calls |-> c2, raised |-> TRUE]
       ELSE [calls |-> c2 \o c1, raised |-> raised1]

\* FSM.process_event, the two hook calls.  A hook is a caller's callable: it
\* returns (exitOk / enterOk) or raises.  Each call is logged with the call
\* site, the hook, its two arguments and the current_state the hook would
\* observe.
HookCalls(current, replacement, event, exitOk, enterOk) ==
    LET c1 == IF current.on_exit # None
              THEN <<[site |-> "on_exit", hook |-> current.on_exit, state |-> current.name,
                      event |-> event, cursor |-> current.name]>>
              ELSE <<>>
        raised1 == current.on_exit # None /\ ~exitOk
        c2 == IF replacement.on_enter # None
              THEN <<[site |-> "on_enter", hook |-> replacement.on_enter, state |-> replacement.name,
                      event |-> event, cursor |-> current.name]>>
              ELSE <<>>
        raised2 == replacement.on_enter # None /\ ~enterOk
    IN IF raised1 THEN [calls |-> c1, raised |-> TRUE]
       ELSE [calls |-> c1 \o c2, raised |-> raised2]

\* The bookkeeping with the second `if` written as `elif`
Bookkeeping_elif(target, name, declared) ==
    IF target # None /\ target = name THEN None
    ELSE IF target = None /\ declared # None THEN declared
    ELSE target

\* The bookkeeping never clearing a reached target
Bookkeeping_keeps_reached(target, name, declared) ==
    IF target = None /\ declared # None THEN declared ELSE target

\* The bookkeeping adopting the declared target of every state entered
Bookkeeping_adopt_always(target, name, declared) ==
    IF declared # None THEN declared
    ELSE IF target # None /\ target = name THEN None
    ELSE target

\* FSM.process_event, the target bookkeeping after the cursor moved
Bookkeeping(target, name, declared) ==
    LET cleared == IF target # None /\ target = name THEN None ELSE target
    IN IF cleared = None /\ declared # None THEN declared ELSE cleared

\* process_event returning a reaction of the destination bound under any
\* event
process_event_any_reaction(F, H, m, event, exitOk, enterOk) ==
    LET t == H[F[m].tab]
        current == F[m].current[1]
        replacement == JumpOf(t, current.name, event)
        hooks == HookCalls(current, replacement, event, exitOk, enterOk)
        bound == StateData(t, replacement.name).reactions
    IN IF Rejected(F, H, m, event) # "ok" THEN Outcome(F, H, Rejected(F, H, m, event))
       ELSE IF hooks.raised
       THEN [Outcome(F, H, "HookError") EXCEPT !.calls = hooks.calls]
       ELSE [Outcome([F EXCEPT ![m].current = <<replacement>>,
                               ![m].target_state =
                                   Bookkeeping(F[m].target_state, replacement.name,
                                               StateData(t, replacement.name).target)],
                     H, "ok")
               EXCEPT !.calls = hooks.calls,
                      !.ret_bool = StateData(t, replacement.name).terminal,
                      !.ret_reaction =
                          IF DOMAIN bound # {}
                          THEN <<bound[CHOOSE ev \in DOMAIN bound : TRUE]>>
                          ELSE <<>>]

\* process_event assigning self._current before it calls the hooks
process_event_commit_first(F, H, m, event, exitOk, enterOk) ==
    LET t == H[F[m].tab]
        current == F[m].current[1]
        replacement == JumpOf(t, current.name, event)
        hooks == HookCalls(current, replacement, event, exitOk, enterOk)
    IN IF Rejected(F, H, m, event) # "ok" THEN Outcome(F, H, Rejected(F, H, m, event))
       ELSE IF hooks.raised
       THEN [Outcome([F EXCEPT ![m].current = <<replacement>>], H, "HookError")
               EXCEPT !.calls = hooks.calls]
       ELSE [Outcome([F EXCEPT ![m].current = <<replacement>>,
                               ![m].target_state =
                                   Bookkeeping(F[m].target_state, replacement.name,
                                               StateData(t, replacement.name).target)],
                     H, "ok")
               EXCEPT !.calls = hooks.calls,
                      !.ret_bool = StateData(t, replacement.name).terminal,
                      !.ret_reaction =
                          IF event \in DOMAIN StateData(t, replacement.name).reactions
                          THEN <<StateData(t, replacement.name).reactions[event]>>
                          ELSE <<>>]

\* FSM.process_event
process_event(F, H, m, event, exitOk, enterOk) ==
    LET t == H[F[m].tab]
        current == F[m].current[1]
        replacement == JumpOf(t, current.name, event)
        hooks == HookCalls(current, replacement, event, exitOk, enterOk)
    IN IF Rejected(F, H, m, event) # "ok" THEN Outcome(F, H, Rejected(F, H, m, event))
       ELSE IF hooks.raised
       THEN [Outcome(F, H, "HookError") EXCEPT !.calls = hooks.calls]
       ELSE [Outcome([F EXCEPT ![m].current = <<replacement>>,
                               ![m].target_state =
                                   Bookkeeping(F[m].target_state, replacement.name,
                                               StateData(t, replacement.name).target)],
                     H, "ok")
               EXCEPT !.calls = hooks.calls,
                      !.ret_bool = StateData(t, replacement.name).terminal,
                      !.ret_reaction =
                          IF event \in DOMAIN StateData(t, replacement.name).reactions
                          THEN <<StateData(t, replacement.name).reactions[event]>>
                          ELSE <<>>]

\* copy() whose shallow copy gets tables of its own
copy_shallow_duplicates(F, H, src, dst, shallow) ==
    Outcome([F EXCEPT ![dst] = NewFSM(F[src].start_state, dst)],
            [H EXCEPT ![dst] = H[F[src].tab]], "ok")

\* copy() whose deep copy keeps the tables of the source
copy_deep_shares(F, H, src, dst, shallow) ==
    Outcome([F EXCEPT ![dst] = NewFSM(F[src].start_state, F[src].tab)], H, "ok")

\* copy() that hands the cursor of the source to the copy
copy_keeps_cursor(F, H, src, dst, shallow) ==
    LET c == [NewFSM(F[src].start_state, IF shallow THEN F[src].tab ELSE dst)
                 EXCEPT !.current = F[src].current,
                        !.target_state = F[src].target_state]
    IN IF ~shallow
       THEN Outcome([F EXCEPT ![dst] = c], [H EXCEPT ![dst] = H[F[src].tab]], "ok")
       ELSE Outcome([F EXCEPT ![dst] = c], H, "ok")

\* FSM.copy
copy(F, H, src, dst, shallow) ==
    IF ~shallow
    THEN Outcome([F EXCEPT ![dst] = NewFSM(F[src].start_state, dst)],
                 [H EXCEPT ![dst] = H[F[src].tab]], "ok")
    ELSE Outcome([F EXCEPT ![dst] = NewFSM(F[src].start_state, F[src].tab)], H, "ok")

\* ---------------------------------------------------------------------
\* The Runner: the generator returned by FSM.run_iter
\* ---------------------------------------------------------------------
\* No generator.  A generator holds the locals of run_iter: pc is "created"
\* (not started), "suspended" (at the yield) or "finished" (returned, raised
\* or closed).
NoRun ==
    [pc |-> "none", m |-> 0, initialize |-> FALSE, event |-> None,
     old_state |-> None, new_state |-> None, reaction |-> <<>>, terminal |-> FALSE]

\* FSM.run_iter, the call: it makes the generator and runs nothing.
run_iter(m, event, do_initialize) ==
    [NoRun EXCEPT !.pc = "created", !.m = m, !.initialize = do_initialize, !.event = event]

\* What resuming a generator gave: the objects after it, "yield" or what was
\* raised, and the calls made.
Resumed(F, g, result, log) == [fsm |-> F, gen |-> g, result |-> result, calls |-> log]

\* The pass taking the state the generator yielded last for the old state
LoopBody_own_cursor(F, H, g, event, log, exitOk, enterOk) ==
    LET o == process_event(F, H, g.m, event, exitOk, enterOk)
        log2 == log \o <<[site |-> "process_event", hook |-> None,
                          state |-> current_state(F[g.m]), event |-> event,
                          cursor |-> current_state(F[g.m])]>> \o o.calls
    IN IF o.result # "ok"
       THEN Resumed(o.fsm, [g EXCEPT !.pc = "finished", !.event = event], o.result, log2)
       ELSE Resumed(o.fsm,
                    [g EXCEPT !.pc = "suspended", !.event = event,
                              !.old_state = IF g.pc = "suspended" THEN g.new_state
                                            ELSE current_state(F[g.m]),
                              !.new_state = current_state(o.fsm[g.m]),
                              !.reaction = o.ret_reaction,
                              !.terminal = o.ret_bool],
                    "yield", log2)

\* The pass reading the old state after process_event
LoopBody_old_after(F, H, g, event, log, exitOk, enterOk) ==
    LET o == process_event(F, H, g.m, event, exitOk, enterOk)
        log2 == log \o <<[site |-> "process_event", hook |-> None,
                          state |-> current_state(F[g.m]), event |-> event,
                          cursor |-> current_state(F[g.m])]>> \o o.calls
    IN IF o.result # "ok"
       THEN Resumed(o.fsm, [g EXCEPT !.pc = "finished", !.event = event], o.result, log2)
       ELSE Resumed(o.fsm,
                    [g EXCEPT !.pc = "suspended", !.event = event,
                              !.old_state = current_state(o.fsm[g.m]),
                              !.new_state = current_state(o.fsm[g.m]),
                              !.reaction = o.ret_reaction,
                              !.terminal = o.ret_bool],
                    "yield", log2)

\* FSM.run_iter, one pass from the top of the loop to the yield.
LoopBody(F, H, g, event, log, exitOk, enterOk) ==
    LET o == process_event(F, H, g.m, event, exitOk, enterOk)
        log2 == log \o <<[site |-> "process_event", hook |-> None,
                          state |-> current_state(F[g.m]), event |-> event,
                          cursor |-> current_state(F[g.m])]>> \o o.calls
    IN IF o.result # "ok"
       THEN Resumed(o.fsm, [g EXCEPT !.pc = "finished", !.event = event], o.result, log2)
       ELSE Resumed(o.fsm,
                    [g EXCEPT !.pc = "suspended", !.event = event,
                              !.old_state = current_state(F[g.m]),
                              !.new_state = current_state(o.fsm[g.m]),
                              !.reaction = o.ret_reaction,
                              !.terminal = o.ret_bool],
                    "yield", log2)

\* The choice with the reaction taking precedence over a sent event
Continuation_reaction_first(g, sent) ==
    IF g.terminal THEN "StopIteration"
    ELSE IF g.reaction = <<>> /\ sent = None THEN "NotFound"
    ELSE IF g.reaction # <<>> THEN "reaction"
    ELSE "sent"

\* The choice ending the generator quietly when nothing continues the run
Continuation_stall_returns(g, sent) ==
    IF g.terminal THEN "StopIteration"
    ELSE IF g.reaction = <<>> /\ sent = None THEN "StopIteration"
    ELSE IF sent # None THEN "sent"
    ELSE "reaction"

\* The choice looking at the sent event before the terminal flag
Continuation_sent_before_terminal(g, sent) ==
    IF sent # None THEN "sent"
    ELSE IF g.terminal THEN "StopIteration"
    ELSE IF g.reaction = <<>> THEN "NotFound"
    ELSE "reaction"

\* FSM.run_iter, what the generator does after the yield: it ends
\* ("StopIteration"), raises ("NotFound"), or goes on with the sent event
\* ("sent") or with the event its reaction returns ("reaction").
Continuation(g, sent) ==
    IF g.terminal THEN "StopIteration"
    ELSE IF g.reaction = <<>> /\ sent = None THEN "NotFound"
    ELSE IF sent # None THEN "sent"
    ELSE "reaction"

\* FSM.run_iter, `event = cb(old_state, new_state, event, *args, **kwargs)`:
\* the call as the callback sees it, with the event rv it returns and the
\* current_state it would observe.
ReactionCall(F, g, rv) ==
    [site |-> "reaction", hook |-> g.reaction[1][1],
     old |-> g.old_state, new |-> g.new_state, event |-> g.event,
     args |-> g.reaction[1][2], kwargs |-> g.reaction[1][3],
     returned |-> rv, cursor |-> current_state(F[g.m])]

\* The callback's return value dropped: the event stays what it was
Returned_dropped(g, rv) == g.event

\* FSM.run_iter, `event = cb(...)`: the event of the next pass is what the
\* callback returned.
Returned(g, rv) == rv

\* FSM.run_iter, the generator resumed by next() (sent = None) or
\* send(sent), up to its next yield or its end.  The reaction is a caller's
\* callable: it returns rv (reactionOk) or raises.
resume(F, H, g, sent, rv, reactionOk, exitOk, enterOk) ==
    IF g.pc = "created"
    THEN IF sent # None THEN Resumed(F, g, "TypeError", <<>>)
         ELSE IF g.initialize
         THEN LET oi == initialize(F, H, g.m, None)
              IN IF oi.result # "ok"
                 THEN Resumed(F, [g EXCEPT !.pc = "finished"], oi.result, <<>>)
                 ELSE LoopBody(oi.fsm, H, g, g.event, <<>>, exitOk, enterOk)
         ELSE LoopBody(F, H, g, g.event, <<>>, exitOk, enterOk)
    ELSE IF g.pc = "suspended"
    THEN IF Continuation(g, sent) \notin {"sent", "reaction"}
         THEN Resumed(F, [g EXCEPT !.pc = "finished"], Continuation(g, sent), <<>>)
         ELSE IF Continuation(g, sent) = "sent"
         THEN LoopBody(F, H, g, sent, <<>>, exitOk, enterOk)
         ELSE LET called == <<ReactionCall(F, g, rv)>>
              IN IF ~reactionOk
                 THEN Resumed(F, [g EXCEPT !.pc = "finished"], "ReactionError", called)
                 ELSE LoopBody(F, H, g, Returned(g, rv), called, exitOk, enterOk)
    ELSE Resumed(F, g, "StopIteration", <<>>)

\* close() with the loop going on after GeneratorExit
close_continues(F, H, g) ==
    IF g.pc = "suspended" THEN LoopBody(F, H, g, g.event, <<>>, TRUE, TRUE)
    ELSE Resumed(F, [g EXCEPT !.pc = "finished"], "ok", <<>>)

\* generator.close(): GeneratorExit is raised at the yield and caught, the
\* loop is left.
close(F, H, g) == Resumed(F, [g EXCEPT !.pc = "finished"], "ok", <<>>)

\* ---------------------------------------------------------------------
\* Actions: one per public method, called by the program using the machine
\* ---------------------------------------------------------------------
\* What the caller saw of the last call: the method, its receiver and
\* arguments, what it raised or returned, and the cursor the receiver
\* reported before the call.  For next()/send() on a generator r, ret_reaction
\* and ret_bool are the (reaction, terminal) pair the generator held when it
\* was resumed, state is the new state of the pair it yielded last, and
\* result is "yield" when it yielded.  arg is a further
\* argument of the call, before what the table held under the call's key.
Seen(op, m, state, event, o) ==
    [op |-> op, m |-> m, r |-> 0, state |-> state, event |-> event,
     arg |-> None, before |-> None,
     result |-> o.result,
     ret_bool |-> o.ret_bool, ret_reaction |-> o.ret_reaction,
     before_current |-> current_state(fsm[m]),
     before_target |-> target_state(fsm[m])]

Effects(op, m, state, event, o) ==
    /\ fsm' = o.fsm
    /\ heap' = o.heap
    /\ calls' = o.calls
    /\ last' = Seen(op, m, state, event, o)

Apply(op, m, state, event, o) ==
    /\ Effects(op, m, state, event, o)
    /\ UNCHANGED <<run, origin, trail>>

Tab(m) == heap[fsm[m].tab]

AddState(m, state, terminal, on_enter, on_exit, target) ==
    /\ fsm[m].exists
    /\ LET o == add_state(fsm, heap, m, state, terminal, on_enter, on_exit, target)
       IN /\ Len(o.heap[fsm[m].tab].states) <= MaxStates
          /\ Apply("add_state", m, None, None, o)

AddReaction(m, state, event, reaction, args, kwargs) ==
    /\ fsm[m].exists
    /\ LET o == add_reaction(fsm, heap, m, state, event, reaction, args, kwargs)
       IN /\ NumReactions(o.heap[fsm[m].tab]) <= MaxReactions
          /\ Apply("add_reaction", m, None, None, o)

AddTransition(m, start, end, event) ==
    /\ fsm[m].exists
    /\ LET o == add_transition(fsm, heap, m, start, end, event)
       IN /\ events(o.heap[fsm[m].tab]) <= MaxEdges
          /\ Apply("add_transition", m, None, None, o)

Freeze(m) ==
    /\ fsm[m].exists
    /\ Apply("freeze", m, None, None, freeze(fsm, heap, m))

Initialize(m, state) ==
    /\ fsm[m].exists
    /\ Apply("initialize", m, state, None, initialize(fsm, heap, m, state))

ProcessEvent(m, event, exitOk, enterOk) ==
    /\ fsm[m].exists
    /\ Apply("process_event", m, None, event,
             process_event(fsm, heap, m, event, exitOk, enterOk))

TestEvent(m, event) ==
    /\ fsm[m].exists
    /\ Apply("test_event", m, None, event,
             [Outcome(fsm, heap, "ok") EXCEPT !.ret_bool = test_event(fsm, heap, m, event)])

Copy(src, dst, shallow) ==
    /\ fsm[src].exists
    /\ ~fsm[dst].exists
    /\ Effects("copy", dst, None, None, copy(fsm, heap, src, dst, shallow))
    /\ origin' = [origin EXCEPT ![dst] = IF shallow THEN "shallow" ELSE "deep"]
    /\ UNCHANGED <<run, trail>>

RunIter(r, m, event, do_initialize) ==
    /\ fsm[m].exists
    /\ run[r].pc = "none"
    /\ run' = [run EXCEPT ![r] = run_iter(m, event, do_initialize)]
    /\ last' = [Seen("run_iter", m, None, event, Outcome(fsm, heap, "ok")) EXCEPT !.r = r]
    /\ calls' = <<>>
    /\ UNCHANGED <<fsm, heap, origin, trail>>

Resume(r, sent, rv, reactionOk, exitOk, enterOk) ==
    /\ run[r].pc # "none"
    /\ LET o == resume(fsm, heap, run[r], sent, rv, reactionOk, exitOk, enterOk)
       IN /\ fsm' = o.fsm
          /\ run' = [run EXCEPT ![r] = o.gen]
          /\ calls' = o.calls
          /\ last' = [Seen("send", run[r].m, run[r].new_state, sent,
                           Outcome(fsm, heap, o.result))
                         EXCEPT !.r = r, !.ret_reaction = run[r].reaction,
                                !.ret_bool = run[r].terminal]
    /\ UNCHANGED <<heap, origin, trail>>

Close(r) ==
    /\ run[r].pc # "none"
    /\ LET o == close(fsm, heap, run[r])
       IN /\ fsm' = o.fsm
          /\ run' = [run EXCEPT ![r] = o.gen]
          /\ calls' = o.calls
          /\ last' = [Seen("close", run[r].m, None, None, Outcome(fsm, heap, o.result))
                         EXCEPT !.r = r]
    /\ UNCHANGED <<heap, origin, trail>>

\* ---------------------------------------------------------------------
\* Specification of one machine: FSM(start_state), then any calls
\* ---------------------------------------------------------------------
Init ==
    /\ \E start_state \in Names \cup {None} :
          fsm = [m \in Machines |-> IF m = 1 THEN NewFSM(start_state, 1) ELSE NoFSM]
    /\ heap = [h \in Machines |-> EmptyTables]
    /\ calls = <<>>
    /\ last = Seen("__init__", 1, None, None, Outcome(fsm, heap, "ok"))
    /\ run = [r \in Runners |-> NoRun]
    /\ origin = [m \in Machines |-> IF m = 1 THEN "new" ELSE "none"]
    /\ trail = <<>>

Next ==
    \/ \E state \in Names :
          AddState(1, state, StateDefs[state].terminal, StateDefs[state].on_enter,
                   StateDefs[state].on_exit, StateDefs[state].target)
    \/ \E state \in Names, event \in EdgeEvents, reaction \in Reactions :
          AddReaction(1, state, event, reaction, <<>>, <<>>)
    \/ \E start \in Names, end \in Names, event \in EdgeEvents :
          AddTransition(1, start, end, event)
    \/ Freeze(1)
    \/ \E state \in Names \cup {None} : Initialize(1, state)
    \/ \E event \in Events, exitOk \in BOOLEAN, enterOk \in BOOLEAN :
          ProcessEvent(1, event, exitOk, enterOk)
    \/ \E event \in Events : TestEvent(1, event)

Spec == Init /\ [][Next]_vars

\* ---------------------------------------------------------------------
\* Specification of a machine and its copy: FSM(start_state), copy(), then
\* any calls on either object
\* ---------------------------------------------------------------------
\* The calling program of this specification defines two states, the edges
\* leaving "b" and a reaction in "b".
CopyNames == {"b", "c"}

InitCopy ==
    /\ fsm = [m \in Machines |-> IF m = 1 THEN NewFSM("b", 1) ELSE NoFSM]
    /\ heap = [h \in Machines |-> EmptyTables]
    /\ calls = <<>>
    /\ last = Seen("__init__", 1, None, None, Outcome(fsm, heap, "ok"))
    /\ run = [r \in Runners |-> NoRun]
    /\ origin = [m \in Machines |-> IF m = 1 THEN "new" ELSE "none"]
    /\ trail = <<>>

NextCopy ==
    \/ \E m \in Machines, state \in CopyNames :
          AddState(m, state, StateDefs[state].terminal, StateDefs[state].on_enter,
                   StateDefs[state].on_exit, StateDefs[state].target)
    \/ \E m \in Machines, event \in EdgeEvents, reaction \in Reactions :
          AddReaction(m, "b", event, reaction, <<>>, <<>>)
    \/ \E m \in Machines, end \in CopyNames, event \in EdgeEvents :
          AddTransition(m, "b", end, event)
    \/ \E m \in Machines : Freeze(m)
    \/ \E m \in Machines, state \in {None, "b"} : Initialize(m, state)
    \/ \E m \in Machines, event \in EdgeEvents : ProcessEvent(m, event, TRUE, TRUE)
    \/ \E m \in Machines, event \in EdgeEvents : TestEvent(m, event)
    \/ \E shallow \in BOOLEAN : Copy(1, 2, shallow)

SpecCopy == InitCopy /\ [][NextCopy]_vars

\* ---------------------------------------------------------------------
\* Specification of a machine driven by one Runner: FSM("b"), definitions,
\* run_iter(), then next()/send()/close() on the generator.  The Runner is
\* the only driver: initialize() is called directly only before it starts.
\* ---------------------------------------------------------------------
InitRun == InitCopy

NextRun ==
    \/ \E state \in CopyNames :
          AddState(1, state, StateDefs[state].terminal, StateDefs[state].on_enter,
                   StateDefs[state].on_exit, StateDefs[state].target)
    \/ \E state \in CopyNames, event \in EdgeEvents, reaction \in Reactions :
          AddReaction(1, state, event, reaction, <<>>, <<>>)
    \/ \E end \in CopyNames, event \in Events :
          AddTransition(1, "b", end, event)
    \/ (run[1].pc \in {"none", "created"} /\ Initialize(1, None))
    \/ \E event \in Events, do_initialize \in BOOLEAN : RunIter(1, 1, event, do_initialize)
    \/ \E sent \in Events \cup {None}, rv \in Events \cup {None},
          reactionOk \in BOOLEAN, enterOk \in BOOLEAN :
          Resume(1, sent, rv, reactionOk, TRUE, enterOk)
    \/ Close(1)

SpecRun == InitRun /\ [][NextRun]_vars

\* Specification of a machine driven by two Runners: FSM("b"), definitions,
\* then two generators of run_iter() on the same machine, resumed in any
\* order.  The graph is defined before the first generator is made.
NextRun2 ==
    \/ /\ \A r \in Runners : run[r].pc = "none"
       /\ \/ \E state \in Names :
                AddState(1, state, StateDefs[state].terminal, StateDefs[state].on_enter,
                         StateDefs[state].on_exit, StateDefs[state].target)
          \/ \E state \in {"a", "b"}, event \in EdgeEvents, reaction \in Reactions :
                AddReaction(1, state, event, reaction, <<>>, <<>>)
          \/ \E start \in {"a", "b"}, end \in Names, event \in EdgeEvents :
                AddTransition(1, start, end, event)
          \/ Initialize(1, None)
    \/ \E r \in Runners, event \in EdgeEvents, do_initialize \in BOOLEAN :
          RunIter(r, 1, event, do_initialize)
    \/ \E r \in Runners, sent \in EdgeEvents \cup {None}, rv \in EdgeEvents :
          Resume(r, sent, rv, TRUE, TRUE, TRUE)

SpecRun2 == InitRun /\ [][NextRun2]_vars

\* FSM.run, one turn of its for loop: next() on the generator, for as long
\* as the generator has not ended.
RunLoop(r, rv, reactionOk, enterOk) ==
    /\ run[r].pc \in {"created", "suspended"}
    /\ Resume(r, None, rv, reactionOk, TRUE, enterOk)

\* Specification of run(): FSM("b"), definitions, then run(event,
\* initialize), which makes the generator and resumes it with next() only.
NextRunAll ==
    \/ /\ run[1].pc = "none"
       /\ \/ \E state \in CopyNames :
                AddState(1, state, StateDefs[state].terminal, StateDefs[state].on_enter,
                         StateDefs[state].on_exit, StateDefs[state].target)
          \/ \E state \in CopyNames, event \in EdgeEvents, reaction \in Reactions :
                AddReaction(1, state, event, reaction, <<>>, <<>>)
          \/ \E end \in CopyNames, event \in Events :
                AddTransition(1, "b", end, event)
          \/ Initialize(1, None)
    \/ \E event \in Events, do_initialize \in BOOLEAN : RunIter(1, 1, event, do_initialize)
    \/ \E rv \in Events \cup {None}, reactionOk \in BOOLEAN, enterOk \in BOOLEAN :
          RunLoop(1, rv, reactionOk, enterOk)

SpecRunAll == InitRun /\ [][NextRunAll]_vars

\* ---------------------------------------------------------------------
\* The provisioning graph of ironic/common/states.py
\* ---------------------------------------------------------------------
NOSTATE == None
ACTIVE == "active"
DEPLOYWAIT == "wait call-back"
DEPLOYING == "deploying"
DEPLOYFAIL == "deploy failed"
DEPLOYDONE == "deploy complete"
DELETING == "deleting"
DELETED == "deleted"
ERROR == "error"
REBUILD == "rebuild"

\* The add_state calls, in order.
ProvStates ==
    << [state |-> NOSTATE, target |-> None],
       [state |-> ACTIVE, target |-> None],
       [state |-> ERROR, target |-> None],
       [state |-> DEPLOYDONE, target |-> ACTIVE],
       [state |-> DEPLOYING, target |-> DEPLOYDONE],
       [state |-> DEPLOYWAIT, target |-> None],
       [state |-> DEPLOYFAIL, target |-> None],
       [state |-> REBUILD, target |-> DEPLOYDONE],
       [state |-> DELETED, target |-> NOSTATE],
       [state |-> DELETING, target |-> DELETED] >>

\* The graph without the edge that completes a delete
ProvTransitions_no_return ==
    << <<NOSTATE, DEPLOYING, "active">>,
       <<DEPLOYING, DEPLOYFAIL, "fail">>,
       <<DEPLOYFAIL, DEPLOYING, "rebuild">>,
       <<DEPLOYING, DEPLOYWAIT, "wait">>,
       <<DEPLOYWAIT, DEPLOYING, "resume">>,
       <<DEPLOYING, DEPLOYDONE, "done">>,
       <<DEPLOYDONE, ACTIVE, "next-state">>,
       <<ACTIVE, DEPLOYING, "rebuild">>,
       <<ACTIVE, DELETING, "delete">>,
       <<DEPLOYWAIT, DELETING, "delete">>,
       <<DEPLOYFAIL, DELETING, "delete">>,
       <<NOSTATE, ERROR, "error">>,
       <<DEPLOYING, ERROR, "error">>,
       <<DEPLOYWAIT, ERROR, "error">>,
       <<ACTIVE, ERROR, "error">>,
       <<REBUILD, ERROR, "error">>,
       <<DELETING, ERROR, "error">>,
       <<ERROR, DEPLOYING, "rebuild">>,
       <<ERROR, DELETING, "delete">> >>

\* The add_transition calls, in order.
ProvTransitions ==
    << <<NOSTATE, DEPLOYING, "active">>,
       <<DEPLOYING, DEPLOYFAIL, "fail">>,
       <<DEPLOYFAIL, DEPLOYING, "rebuild">>,
       <<DEPLOYING, DEPLOYWAIT, "wait">>,
       <<DEPLOYWAIT, DEPLOYING, "resume">>,
       <<DEPLOYING, DEPLOYDONE, "done">>,
       <<DEPLOYDONE, ACTIVE, "next-state">>,
       <<ACTIVE, DEPLOYING, "rebuild">>,
       <<ACTIVE, DELETING, "delete">>,
       <<DEPLOYWAIT, DELETING, "delete">>,
       <<DEPLOYFAIL, DELETING, "delete">>,
       <<DELETING, NOSTATE, "done">>,
       <<NOSTATE, ERROR, "error">>,
       <<DEPLOYING, ERROR, "error">>,
       <<DEPLOYWAIT, ERROR, "error">>,
       <<ACTIVE, ERROR, "error">>,
       <<REBUILD, ERROR, "error">>,
       <<DELETING, ERROR, "error">>,
       <<ERROR, DEPLOYING, "rebuild">>,
       <<ERROR, DELETING, "delete">> >>

\* The events of the graph.
ProvEvents == {ProvTransitions[i][3] : i \in DOMAIN ProvTransitions}

\* The first k add_state calls made on machine 1 of o.
RECURSIVE DefineStates(_, _)
DefineStates(o, k) ==
    IF k = 0 THEN o
    ELSE LET p == DefineStates(o, k - 1)
         IN add_state(p.fsm, p.heap, 1, ProvStates[k].state, FALSE, None, None,
                      ProvStates[k].target)

\* The first k add_transition calls made on machine 1 of o.
RECURSIVE DefineTransitions(_, _)
DefineTransitions(o, k) ==
    IF k = 0 THEN o
    ELSE LET p == DefineTransitions(o, k - 1)
         IN add_transition(p.fsm, p.heap, 1, ProvTransitions[k][1],
                           ProvTransitions[k][2], ProvTransitions[k][3])

\* states.machine once the module is imported: FSM(), the add_state and
\* add_transition calls, freeze().
machine ==
    LET new == Outcome([m \in Machines |-> IF m = 1 THEN NewFSM(None, 1) ELSE NoFSM],
                       [h \in Machines |-> EmptyTables], "ok")
        defined == DefineTransitions(DefineStates(new, Len(ProvStates)),
                                     Len(ProvTransitions))
    IN freeze(defined.fsm, defined.heap, 1)

\* What the caller observes after a call: the event and the cursor.
Observed(F, m, event) ==
    [event |-> event, current |-> current_state(F[m]), target |-> target_state(F[m])]

\* initialize() on the provisioning machine; the trail starts anew.
ProvInitialize ==
    LET o == initialize(fsm, heap, 1, None)
    IN /\ Effects("initialize", 1, None, None, o)
       /\ trail' = IF o.result = "ok" THEN <<Observed(o.fsm, 1, "initialize")>> ELSE trail
       /\ UNCHANGED <<run, origin>>

\* process_event(event) on the provisioning machine; the trail grows by
\* every event that was processed.
ProvProcessEvent(event) ==
    /\ Len(trail) < MaxTrail
    /\ LET o == process_event(fsm, heap, 1, event, TRUE, TRUE)
       IN /\ Effects("process_event", 1, None, event, o)
          /\ trail' = IF o.result = "ok" THEN Append(trail, Observed(o.fsm, 1, event))
                      ELSE trail
    /\ UNCHANGED <<run, origin>>

\* Specification of the provisioning machine: states.machine, then
\* initialize(), process_event() and test_event() calls.
InitProv ==
    /\ fsm = machine.fsm
    /\ heap = machine.heap
    /\ calls = <<>>
    /\ last = Seen("freeze", 1, None, None, Outcome(fsm, heap, "ok"))
    /\ run = [r \in Runners |-> NoRun]
    /\ origin = [m \in Machines |-> IF m = 1 THEN "new" ELSE "none"]
    /\ trail = <<>>

NextProv ==
    \/ ProvInitialize
    \/ \E event \in ProvEvents : ProvProcessEvent(event)
    \/ \E event \in ProvEvents : TestEvent(1, event)

SpecProv == InitProv /\ [][NextProv]_vars

\* ---------------------------------------------------------------------
\* Specification of the definition calls: FSM("b"), then add_state,
\* add_transition and add_reaction with any arguments of the menus, defined
\* or not, and initialize/process_event to use what was defined.  The
\* caller's record of a definition call holds its arguments.
\* ---------------------------------------------------------------------
\* The callbacks bound by add_reaction and the extra arguments given with
\* each.
DefReactions == {"r1", "r2"}
ReactionArgs == [reaction \in DefReactions |-> IF reaction = "r1" THEN <<>> ELSE <<"x">>]

\* add_state(state, **StateDefs[like])
DefState(state, like) ==
    LET o == add_state(fsm, heap, 1, state, StateDefs[like].terminal,
                       StateDefs[like].on_enter, StateDefs[like].on_exit,
                       StateDefs[like].target)
    IN /\ Len(o.heap[fsm[1].tab].states) <= MaxStates
       /\ fsm' = o.fsm /\ heap' = o.heap /\ calls' = o.calls
       /\ last' = [Seen("add_state", 1, state, None, o) EXCEPT !.arg = like]
       /\ UNCHANGED <<run, origin, trail>>

\* add_transition(start, end, event)
DefTransition(start, end, event) ==
    LET o == add_transition(fsm, heap, 1, start, end, event)
    IN /\ events(o.heap[fsm[1].tab]) <= MaxEdges
       /\ fsm' = o.fsm /\ heap' = o.heap /\ calls' = o.calls
       /\ last' = [Seen("add_transition", 1, start, event, o)
                      EXCEPT !.arg = end,
                             !.before = IF Contains(Tab(1), start) /\ HasEvent(Tab(1), start, event)
                                        THEN JumpOf(Tab(1), start, event).name ELSE None]
       /\ UNCHANGED <<run, origin, trail>>

\* add_reaction(state, event, reaction, *ReactionArgs[reaction])
DefReaction(state, event, reaction) ==
    LET o == add_reaction(fsm, heap, 1, state, event, reaction, ReactionArgs[reaction], <<>>)
    IN /\ NumReactions(o.heap[fsm[1].tab]) <= MaxReactions
       /\ fsm' = o.fsm /\ heap' = o.heap /\ calls' = o.calls
       /\ last' = [Seen("add_reaction", 1, state, event, o)
                      EXCEPT !.arg = reaction,
                             !.before = IF Contains(Tab(1), state)
                                           /\ event \in DOMAIN StateData(Tab(1), state).reactions
                                        THEN StateData(Tab(1), state).reactions[event][1]
                                        ELSE None]
       /\ UNCHANGED <<run, origin, trail>>

InitDef == InitCopy

NextDef ==
    \/ \E state \in CopyNames, like \in Names : DefState(state, like)
    \/ \E start \in CopyNames, end \in CopyNames, event \in EdgeEvents :
          DefTransition(start, end, event)
    \/ \E state \in CopyNames, event \in Events, reaction \in DefReactions :
          DefReaction(state, event, reaction)
    \/ Initialize(1, None)
    \/ \E event \in EdgeEvents : ProcessEvent(1, event, TRUE, TRUE)

SpecDef == InitDef /\ [][NextDef]_vars

\* ---------------------------------------------------------------------
\* Properties
\* ---------------------------------------------------------------------
\* The machine the last call was made on, and its tables.
LastFSM == fsm[last.m]
LastTab == heap[fsm[last.m].tab]

DefinitionCalls == {"add_state", "add_transition", "add_reaction"}

\* The exit-hook calls of a call log, as (hook, state argument, event argument).
ExitCalls(log) ==
    LET ex == SelectSeq(log, LAMBDA c : c.site = "on_exit")
    IN [i \in DOMAIN ex |-> <<ex[i].hook, ex[i].state, ex[i].event>>]

\* C1: when a hook raises during process_event(event) the call fails and
\* current_state and target_state are what they were before the call, and a
\* following process_event(event) whose hooks return gives the machine the
\* same cursor as it would have given before the failed call.
C1_HookFailureKeepsCursor ==
    [][\A m \in Machines, ev \in Events :
          (last'.op = "process_event" /\ last'.m = m /\ last'.event = ev
              /\ last'.result = "HookError")
          => /\ current_state(fsm'[m]) = current_state(fsm[m])
             /\ target_state(fsm'[m]) = target_state(fsm[m])
             /\ process_event(fsm', heap', m, ev, TRUE, TRUE).fsm[m]
                  = process_event(fsm, heap, m, ev, TRUE, TRUE).fsm[m]
             /\ process_event(fsm', heap', m, ev, TRUE, TRUE).result = "ok"]_vars

\* C1 witness: the exit hook returned, the enter hook raised, and the edge
\* leads to another state.
C1_Witness ==
    /\ last.op = "process_event" /\ last.result = "HookError"
    /\ Len(calls) = 2 /\ calls[2].site = "on_enter"
    /\ calls[2].state # current_state(LastFSM)

LandedOnTarget ==
    /\ last.op = "process_event" /\ last.result = "ok"
    /\ last.before_target # None
    /\ current_state(LastFSM) = last.before_target

\* C3 as stated: when process_event lands on the tracked target, target_state
\* is null when it returns.
C3_TargetNullOnReach ==
    LandedOnTarget => target_state(LastFSM) = None

\* C3 amended: when process_event lands on the tracked target, target_state
\* is the declared target of the destination when it returns (null when the
\* destination declares none).
C3_TargetRearmedOnReach ==
    LandedOnTarget =>
        target_state(LastFSM) = StateData(LastTab, current_state(LastFSM)).target

\* C3 witness: the tracked target was reached and the destination's own
\* declared target is now tracked.
C3_Witness ==
    /\ LandedOnTarget
    /\ StateData(LastTab, current_state(LastFSM)).target # None
    /\ target_state(LastFSM) # last.before_target

\* C4: on a frozen machine every add_state, add_transition and add_reaction
\* call raises FrozenMachine and changes no table, and the machine stays
\* frozen whatever is called on it (freeze() included).
C4_FrozenRejectsDefinitions ==
    [][\A m \in Machines :
          (fsm[m].exists /\ fsm[m].frozen)
          => /\ fsm'[m].frozen
             /\ (last'.m = m /\ last'.op \in DefinitionCalls)
                  => (last'.result = "FrozenMachine" /\ heap' = heap)]_vars

\* C4 witness: add_transition on a machine that was frozen with states in it.
C4_Witness ==
    /\ LastFSM.frozen
    /\ last.op = "add_transition" /\ last.result = "FrozenMachine"
    /\ Len(LastTab.states) >= 2

\* C5: once a machine is frozen its tables never change, whatever is called
\* on it or on a copy of it.
C5_FrozenTablesNeverChange ==
    [][\A m \in Machines :
          (fsm[m].exists /\ fsm[m].frozen)
          => heap'[fsm[m].tab] = heap[fsm[m].tab]]_vars

\* C6: process_event(event) on an uninitialized machine, from a terminal
\* state or without an edge for (current state, event) raises InvalidState,
\* calls no hook and leaves current_state and target_state as they were.
C6_RejectedEventChangesNothing ==
    [][\A m \in Machines, ev \in Events :
          (/\ last'.op = "process_event" /\ last'.m = m /\ last'.event = ev
           /\ \/ fsm[m].current = <<>>
              \/ StateData(heap[fsm[m].tab], fsm[m].current[1].name).terminal
              \/ ~HasEvent(heap[fsm[m].tab], fsm[m].current[1].name, ev))
          => /\ last'.result = "InvalidState"
             /\ calls' = <<>>
             /\ current_state(fsm'[m]) = current_state(fsm[m])
             /\ target_state(fsm'[m]) = target_state(fsm[m])]_vars

\* C6 witness: an event without an edge, in a state that is not terminal and
\* has an edge for another event.
C6_Witness ==
    /\ last.op = "process_event" /\ last.result = "InvalidState"
    /\ LastFSM.current # <<>>
    /\ ~StateData(LastTab, current_state(LastFSM)).terminal
    /\ ~HasEvent(LastTab, current_state(LastFSM), last.event)
    /\ \E ev \in Events : HasEvent(LastTab, current_state(LastFSM), ev)

\* C7: with the cursor at a terminal state every process_event raises and
\* leaves the cursor where it is, and every test_event returns false, also
\* for an event that has an edge registered from that state.
C7_TerminalStateIsFinal ==
    [][\A m \in Machines :
          (/\ fsm[m].exists /\ fsm[m].current # <<>>
           /\ StateData(heap[fsm[m].tab], fsm[m].current[1].name).terminal
           /\ last'.m = m)
          => /\ last'.op = "process_event"
                  => (last'.result = "InvalidState" /\ fsm'[m].current = fsm[m].current)
             /\ last'.op = "test_event" => ~last'.ret_bool]_vars

\* C7 witness: process_event raised at a terminal state for an event that has
\* an edge registered from it.
C7_Witness ==
    /\ last.op = "process_event" /\ last.result = "InvalidState"
    /\ LastFSM.current # <<>>
    /\ StateData(LastTab, current_state(LastFSM)).terminal
    /\ HasEvent(LastTab, current_state(LastFSM), last.event)

\* C8: test_event(event) returns true exactly when process_event(event)
\* would pass its checks (it succeeds when its hooks return), and the call
\* raises nothing, calls no hook and changes neither cursor nor tables.
C8_TestEventMirrorsChecks ==
    [][\A m \in Machines, ev \in Events :
          (last'.op = "test_event" /\ last'.m = m /\ last'.event = ev)
          => /\ last'.result = "ok"
             /\ last'.ret_bool = (process_event(fsm, heap, m, ev, TRUE, TRUE).result = "ok")
             /\ last'.ret_bool = (process_event(fsm, heap, m, ev, FALSE, FALSE).result
                                     # "InvalidState")
             /\ fsm' = fsm /\ heap' = heap /\ calls' = <<>>]_vars

\* C8 witness: test_event returned true.
C8_Witness ==
    /\ last.op = "test_event" /\ last.ret_bool
    /\ LastFSM.current # <<>>

\* C9: initialize(s) with a given, defined, terminal s raises InvalidState
\* and leaves the cursor unchanged.
C9_InitializeRejectsTerminal ==
    [][\A m \in Machines, s \in Names :
          (/\ last'.op = "initialize" /\ last'.m = m /\ last'.state = s
           /\ Contains(heap[fsm[m].tab], s)
           /\ StateData(heap[fsm[m].tab], s).terminal)
          => /\ last'.result = "InvalidState"
             /\ fsm'[m].current = fsm[m].current]_vars

\* C10: initialize(s) with a given, defined, non-terminal s succeeds and sets
\* current_state to s whatever the start state is; with an undefined s it
\* raises NotFound.
C10_InitializeGivenState ==
    [][\A m \in Machines, s \in Names :
          (last'.op = "initialize" /\ last'.m = m /\ last'.state = s)
          => IF Contains(heap[fsm[m].tab], s)
             THEN ~StateData(heap[fsm[m].tab], s).terminal
                     => (last'.result = "ok" /\ current_state(fsm'[m]) = s)
             ELSE last'.result = "NotFound"]_vars

\* The states some state declares as its target.
DeclaredTargets(t) == {t.states[i].target : i \in DOMAIN t.states} \ {None}

\* C11: target_state is null, or a state that some state declares as its
\* target and that is not the state the cursor is in.
C11_TargetIsUnreached ==
    \A m \in Machines :
        fsm[m].exists =>
            \/ target_state(fsm[m]) = None
            \/ /\ target_state(fsm[m]) \in DeclaredTargets(heap[fsm[m].tab])
               /\ target_state(fsm[m]) # current_state(fsm[m])

\* The process_event and reaction calls of a call log.
SiteCalls(log, site) == SelectSeq(log, LAMBDA c : c.site = site)

\* Generator r is resumed from its yield after a step into a state that is
\* not terminal.
ResumedAfterStep(r) ==
    /\ last'.op = "send" /\ last'.r = r
    /\ run[r].pc = "suspended" /\ ~run[r].terminal

\* C12: a Runner resumed with a sent event after a step into a non-terminal
\* state passes that event to the next process_event and does not call the
\* reaction, whether or not one is bound.
C12_SentEventWins ==
    [][\A r \in Runners :
          (ResumedAfterStep(r) /\ last'.event # None)
          => /\ SiteCalls(calls', "reaction") = <<>>
             /\ Len(SiteCalls(calls', "process_event")) = 1
             /\ calls'[1].site = "process_event"
             /\ calls'[1].event = last'.event
             /\ run'[r].event = last'.event]_vars

\* C12 witness: the generator held a reaction, an event was sent, and the
\* step made with the sent event yielded.
C12_Witness ==
    /\ last.op = "send" /\ last.event # None
    /\ last.ret_reaction # <<>> /\ ~last.ret_bool
    /\ last.result = "yield"
    /\ run[last.r].event = last.event

\* The generator of the last call was resumed without a sent event, from its
\* yield after a step into a non-terminal state, and held no reaction.
Stalled(r) ==
    /\ ResumedAfterStep(r)
    /\ last'.event = None /\ run[r].reaction = <<>>

\* C13: the run then fails with an error that is neither NotFound
\* (UnknownReference) nor InvalidState (InvalidOperation), it cannot be
\* continued and the cursor stays where it is.
C13_StalledIsItsOwnError ==
    [][\A r \in Runners :
          Stalled(r)
          => /\ last'.result \notin {"yield", "StopIteration", "NotFound", "InvalidState"}
             /\ run'[r].pc = "finished"
             /\ fsm' = fsm]_vars

\* C14: a step that lands in a terminal state yields its pair, and the next
\* resume ends the generator without a process_event or reaction call,
\* whatever is sent and whether or not a reaction is bound.
C14_TerminalEndsRun ==
    [][\A r \in Runners :
          /\ (last'.op = "send" /\ last'.r = r /\ last'.result = "yield")
             => /\ run'[r].new_state = current_state(fsm'[run[r].m])
                /\ run'[r].terminal =
                      StateData(heap[fsm[run[r].m].tab], run'[r].new_state).terminal
          /\ (last'.op = "send" /\ last'.r = r /\ run[r].pc = "suspended"
                /\ run[r].terminal)
             => /\ last'.result = "StopIteration"
                /\ run'[r].pc = "finished"
                /\ calls' = <<>>
                /\ fsm' = fsm]_vars

\* C14 witness: the generator ended after a step into a terminal state,
\* although an event was sent and it held a reaction.
C14_Witness ==
    /\ last.op = "send" /\ last.result = "StopIteration"
    /\ last.ret_bool /\ last.ret_reaction # <<>> /\ last.event # None
    /\ StateData(LastTab, current_state(LastFSM)).terminal

\* C15: closing a generator suspended at its yield ends it, calls nothing
\* and leaves current_state (the new state of the last yielded pair) and
\* target_state as they are.
C15_CloseChangesNothing ==
    [][\A r \in Runners :
          (last'.op = "close" /\ last'.r = r /\ run[r].pc = "suspended")
          => /\ run'[r].pc = "finished"
             /\ calls' = <<>>
             /\ fsm' = fsm /\ heap' = heap
             /\ current_state(fsm'[run[r].m]) = run[r].new_state]_vars

\* C15 witness: a generator was closed after a step that set a target.
C15_Witness ==
    /\ last.op = "close"
    /\ run[last.r].pc = "finished"
    /\ run[last.r].new_state # run[last.r].old_state
    /\ current_state(LastFSM) = run[last.r].new_state
    /\ last.before_current = run[last.r].new_state

\* The other of the two machines.
Other(m) == 3 - m

\* The tables machine m reads.
TabOf(m) == heap[fsm[m].tab]

\* C16: a shallow copy and its original report the same state names, the
\* same membership answers and the same edges at all times.
C16_ShallowCopyReportsSame ==
    origin[2] = "shallow"
    => /\ states(TabOf(1)) = states(TabOf(2))
       /\ \A state \in Names : Contains(TabOf(1), state) = Contains(TabOf(2), state)
       /\ Edges(TabOf(1)) = Edges(TabOf(2))

\* C16 witness: original and shallow copy were driven to different states
\* over a graph with states and edges.
C16_Witness ==
    /\ origin[2] = "shallow"
    /\ last.op = "process_event" /\ last.result = "ok"
    /\ current_state(fsm[1]) # None /\ current_state(fsm[2]) # None
    /\ current_state(fsm[1]) # current_state(fsm[2])
    /\ Len(states(TabOf(2))) = 2
    /\ Edges(TabOf(2)) # {}

\* C17: after a deep copy, add_state, add_transition and add_reaction on
\* one of the two machines leave the states, edges and reactions of the
\* other unchanged.
C17_DeepCopyIsIndependent ==
    [][\A m \in Machines :
          (origin[2] = "deep" /\ last'.op \in DefinitionCalls /\ last'.m = m)
          => /\ heap'[fsm[Other(m)].tab] = TabOf(Other(m))
             /\ fsm'[Other(m)] = fsm[Other(m)]]_vars

\* C17 witness: add_transition on the deep copy overwrote the edge (b, e),
\* which the original still has as it was.
C17_Witness ==
    /\ origin[2] = "deep"
    /\ last.op = "add_transition" /\ last.m = 2 /\ last.result = "ok"
    /\ Contains(TabOf(1), "b") /\ Contains(TabOf(2), "b")
    /\ HasEvent(TabOf(1), "b", "e") /\ HasEvent(TabOf(2), "b", "e")
    /\ JumpOf(TabOf(1), "b", "e").name = "b"
    /\ JumpOf(TabOf(2), "b", "e").name = "c"

\* C18: a copy starts with current_state and target_state null whatever the
\* cursor of its source is, and initialize and process_event on one of two
\* machines sharing tables never change the cursor of the other.
C18_CursorsAreIndependent ==
    [][/\ last'.op = "copy"
          => /\ current_state(fsm'[last'.m]) = None
             /\ target_state(fsm'[last'.m]) = None
             /\ fsm'[Other(last'.m)] = fsm[Other(last'.m)]
       /\ \A m \in Machines :
             (origin[2] = "shallow" /\ last'.op \in {"initialize", "process_event"}
                /\ last'.m = m)
             => fsm'[Other(m)] = fsm[Other(m)]]_vars

\* C18 witness: the original moved by process_event while its shallow copy
\* stayed at another state with another target.
C18_Witness ==
    /\ origin[2] = "shallow"
    /\ last.op = "process_event" /\ last.m = 1 /\ last.result = "ok"
    /\ last.before_current # current_state(fsm[1])
    /\ current_state(fsm[2]) # None
    /\ current_state(fsm[2]) # current_state(fsm[1])
    /\ target_state(fsm[2]) # target_state(fsm[1])

\* The calls of the trail after its initialize().
TrailEvents == [i \in 1..(Len(trail) - 1) |-> trail[i + 1].event]

\* The trail began with initialize() leaving the cursor at no-state with no
\* target, and its events so far are the first events of the scenario.
Follows(scenario) ==
    /\ trail # <<>>
    /\ trail[1] = [event |-> "initialize", current |-> NOSTATE, target |-> None]
    /\ Len(TrailEvents) <= Len(scenario)
    /\ TrailEvents = SubSeq(scenario, 1, Len(TrailEvents))

\* Each step of the trail reported the state of visited and, where targets
\* is given, the target of targets.
Reported(visited, targets) ==
    \A i \in DOMAIN TrailEvents :
       /\ trail[i + 1].current = visited[i]
       /\ targets # <<>> => trail[i + 1].target = targets[i]

ScenarioA == <<"active", "wait", "resume", "done", "next-state">>
ScenarioB == <<"active", "fail", "delete", "done">>

\* C19: on the provisioning graph, after initialize() the events active,
\* wait, resume, done, next-state visit deploying, deploy-wait, deploying,
\* deploy-done, active with targets deploy-done, deploy-done, deploy-done,
\* active, null, and the machine is not terminated at the end.
C19_ScenarioA ==
    Follows(ScenarioA)
    => /\ Reported(<<DEPLOYING, DEPLOYWAIT, DEPLOYING, DEPLOYDONE, ACTIVE>>,
                   <<DEPLOYDONE, DEPLOYDONE, DEPLOYDONE, ACTIVE, None>>)
       /\ TrailEvents = ScenarioA
          => /\ current_state(fsm[1]) = ACTIVE
             /\ target_state(fsm[1]) = None
             /\ ~terminated(fsm[1], TabOf(1))

\* C19 witness: the five events of the scenario were processed.
C19_Witness ==
    /\ Follows(ScenarioA) /\ TrailEvents = ScenarioA
    /\ last.op = "process_event" /\ last.event = "next-state" /\ last.result = "ok"

\* C20: on the provisioning graph, after initialize() the events active,
\* fail, delete, done visit deploying, deploy-failed, deleting, no-state,
\* and test_event('rebuild') then returns false.
C20_ScenarioB ==
    Follows(ScenarioB)
    => /\ Reported(<<DEPLOYING, DEPLOYFAIL, DELETING, NOSTATE>>, <<>>)
       /\ (TrailEvents = ScenarioB /\ last.op = "test_event" /\ last.event = "rebuild")
          => /\ ~last.ret_bool
             /\ current_state(fsm[1]) = NOSTATE

\* C20 witness: the four events of the scenario were processed and
\* test_event('rebuild') was called.
C20_Witness ==
    /\ Follows(ScenarioB) /\ TrailEvents = ScenarioB
    /\ last.op = "test_event" /\ last.event = "rebuild" /\ last.result = "ok"
    /\ ~last.ret_bool

\* What process_event(event) on machine 1 of (F, H) would raise or where it
\* would land.
WouldLand(F, H, event) ==
    LET o == process_event(F, H, 1, event, TRUE, TRUE)
    IN <<o.result, current_state(o.fsm[1]), target_state(o.fsm[1])>>

\* C21: add_transition with an undefined start or end state on an unfrozen
\* machine raises NotFound and stores nothing: the edges and the outcome of
\* every test_event and process_event are what they were.
C21_UndefinedEndpointRejected ==
    [][(/\ last'.op = "add_transition"
        /\ ~fsm[1].frozen
        /\ ~Contains(TabOf(1), last'.state) \/ ~Contains(TabOf(1), last'.arg))
       => /\ last'.result = "NotFound"
          /\ Edges(heap'[fsm'[1].tab]) = Edges(TabOf(1))
          /\ heap'[fsm'[1].tab].transitions = TabOf(1).transitions
          /\ \A event \in Events :
                /\ test_event(fsm', heap', 1, event) = test_event(fsm, heap, 1, event)
                /\ WouldLand(fsm', heap', event) = WouldLand(fsm, heap, event)]_vars

\* C21 witness: add_transition('b', 'c', 'e') was rejected while 'c' was
\* undefined and the edge (b, e) -> b was in the table.
C21_Witness ==
    /\ last.op = "add_transition" /\ last.result = "NotFound"
    /\ last.state = "b" /\ last.arg = "c"
    /\ Contains(TabOf(1), "b") /\ ~Contains(TabOf(1), "c")
    /\ Edges(TabOf(1)) = {<<"b", "e", "b">>}

\* The table holds at most one edge per (start, event).
OneEdgePerEvent(t) ==
    \A i \in DOMAIN t.transitions :
       \A k1, k2 \in DOMAIN t.transitions[i] :
          t.transitions[i][k1].event = t.transitions[i][k2].event => k1 = k2

\* C22: there is at most one edge per (start, event); add_transition for
\* defined states succeeds whether or not (start, event) has an edge, after
\* it process_event(event) from start lands on the end state just given,
\* and the edges of every other (start, event) are unchanged.
C22_LastEdgeWins ==
    [][/\ OneEdgePerEvent(heap'[fsm'[1].tab])
       /\ (/\ last'.op = "add_transition"
           /\ Contains(TabOf(1), last'.state) /\ Contains(TabOf(1), last'.arg))
          => /\ last'.result = "ok"
             /\ \A e \in Edges(heap'[fsm'[1].tab]) :
                   (e[1] = last'.state /\ e[2] = last'.event) => e[3] = last'.arg
             /\ <<last'.state, last'.event, last'.arg>> \in Edges(heap'[fsm'[1].tab])
             /\ \A e \in Edges(TabOf(1)) \cup Edges(heap'[fsm'[1].tab]) :
                   (e[1] # last'.state \/ e[2] # last'.event)
                   => (e \in Edges(TabOf(1)) <=> e \in Edges(heap'[fsm'[1].tab]))
             /\ (/\ fsm[1].current # <<>>
                 /\ current_state(fsm[1]) = last'.state
                 /\ ~StateData(TabOf(1), last'.state).terminal)
                => SubSeq(WouldLand(fsm', heap', last'.event), 1, 2) = <<"ok", last'.arg>>]_vars

\* C22 witness: the edge (b, e) was registered again with another end state
\* while the cursor was at b and another state had an edge of its own.
C22_Witness ==
    /\ last.op = "add_transition" /\ last.result = "ok"
    /\ last.before # None /\ last.before # last.arg
    /\ current_state(fsm[1]) = last.state
    /\ Cardinality(Edges(TabOf(1))) = 2

\* C23: add_state with a target that is not a defined state raises NotFound,
\* as add_transition and add_reaction do for an undefined state, and the
\* state is not added.
C23_UndefinedTargetIsNotFound ==
    [][(/\ last'.op = "add_state"
        /\ ~Contains(TabOf(1), last'.state)
        /\ StateDefs[last'.arg].target # None
        /\ ~Contains(TabOf(1), StateDefs[last'.arg].target))
       => /\ last'.result = "NotFound"
          /\ ~Contains(heap'[fsm'[1].tab], last'.state)]_vars

\* C24: add_state for a name that is already defined raises Duplicate and
\* leaves the flag, hooks, target, reactions and edges of that state as
\* they were.
C24_DuplicateStateRejected ==
    [][(/\ last'.op = "add_state"
        /\ Contains(TabOf(1), last'.state))
       => /\ last'.result = "Duplicate"
          /\ StateData(heap'[fsm'[1].tab], last'.state) = StateData(TabOf(1), last'.state)
          /\ TransOf(heap'[fsm'[1].tab], last'.state) = TransOf(TabOf(1), last'.state)
          /\ states(heap'[fsm'[1].tab]) = states(TabOf(1))]_vars

\* C24 witness: add_state was rejected for a defined state that has an edge
\* and a reaction and other attributes than the call gave.
C24_Witness ==
    /\ last.op = "add_state" /\ last.result = "Duplicate"
    /\ StateData(TabOf(1), last.state).target # StateDefs[last.arg].target
    /\ StateData(TabOf(1), last.state).on_enter # StateDefs[last.arg].on_enter
    /\ TransOf(TabOf(1), last.state) # <<>>
    /\ DOMAIN StateData(TabOf(1), last.state).reactions # {}

\* C25: add_reaction raises NotFound for an undefined state and Duplicate
\* for a (state, event) that is already bound, and then the callback and
\* arguments bound first are still the ones process_event returns.
C25_OneReactionPerEvent ==
    [][/\ (last'.op = "add_reaction" /\ ~Contains(TabOf(1), last'.state))
          => /\ last'.result = "NotFound"
             /\ heap' = heap
       /\ (/\ last'.op = "add_reaction"
           /\ Contains(TabOf(1), last'.state)
           /\ last'.event \in DOMAIN StateData(TabOf(1), last'.state).reactions)
          => /\ last'.result = "Duplicate"
             /\ StateData(heap'[fsm'[1].tab], last'.state).reactions[last'.event]
                   = StateData(TabOf(1), last'.state).reactions[last'.event]
       /\ (last'.op = "process_event" /\ last'.ret_reaction # <<>>)
          => last'.ret_reaction
                = <<StateData(TabOf(1), current_state(fsm'[1])).reactions[last'.event]>>]_vars

\* C25 witness: add_reaction with another callback was rejected for a
\* (state, event) that still holds the callback bound first.
C25_Witness ==
    /\ last.op = "add_reaction" /\ last.result = "Duplicate"
    /\ last.before # None /\ last.before # last.arg
    /\ StateData(TabOf(1), last.state).reactions[last.event]
          = <<last.before, ReactionArgs[last.before], <<>>>>

\* Machine m has a cursor and the state it names carries the terminal flag.
AtTerminal(F, H, m) ==
    /\ F[m].current # <<>>
    /\ \E i \in DOMAIN H[F[m].tab].states :
          /\ H[F[m].tab].states[i].name = F[m].current[1].name
          /\ H[F[m].tab].states[i].terminal

\* C26: terminated is true exactly when the machine has a cursor and the
\* current state is terminal; the cursor appears only with a successful
\* initialize and never goes away, and right after a successful
\* initialize(s) terminated is the terminal flag of s.
C26_TerminatedIsTerminalFlag ==
    [][/\ terminated(fsm[1], TabOf(1)) = AtTerminal(fsm, heap, 1)
       /\ terminated(fsm'[1], heap'[fsm'[1].tab]) = AtTerminal(fsm', heap', 1)
       /\ fsm[1].current = <<>> => ~terminated(fsm[1], TabOf(1))
       /\ (fsm[1].current = <<>> /\ fsm'[1].current # <<>>)
          => (last'.op = "initialize" /\ last'.result = "ok")
       /\ fsm[1].current # <<>> => fsm'[1].current # <<>>
       /\ (last'.op = "initialize" /\ last'.result = "ok")
          => terminated(fsm'[1], heap'[fsm'[1].tab])
                = StateData(TabOf(1), IF last'.state = None THEN fsm[1].start_state
                                      ELSE last'.state).terminal]_vars

\* C26 witness: initialize(s) succeeded for a terminal state s and
\* terminated is true.
C26_Witness ==
    /\ last.op = "initialize" /\ last.result = "ok"
    /\ last.state # None
    /\ StateData(TabOf(1), last.state).terminal
    /\ TransOf(TabOf(1), last.state) # <<>>
    /\ terminated(fsm[1], TabOf(1))

\* C27: two generators on one machine share its cursor: a generator
\* resumed from its yield applies its event to the state the machine is in
\* then, whichever generator moved it there, so the old state of the pair it
\* yields is the machine's state and not the new state it yielded before,
\* and its step is rejected when the event cannot be processed from there.
C27_RunnersShareCursor ==
    [][\A r \in Runners :
          (/\ last'.op = "send" /\ last'.r = r
           /\ run[r].pc = "suspended"
           /\ SiteCalls(calls', "process_event") # <<>>)
          => LET applied == SiteCalls(calls', "process_event")[1]
             IN /\ applied.cursor = current_state(fsm[run[r].m])
                /\ last'.result = "yield"
                   => /\ run'[r].old_state = current_state(fsm[run[r].m])
                      /\ run'[r].new_state = current_state(fsm'[run[r].m])
                      /\ HasEvent(TabOf(run[r].m), current_state(fsm[run[r].m]),
                                  applied.event)
                /\ (\/ StateData(TabOf(run[r].m), current_state(fsm[run[r].m])).terminal
                    \/ ~HasEvent(TabOf(run[r].m), current_state(fsm[run[r].m]),
                                 applied.event))
                   => /\ last'.result = "InvalidState"
                      /\ fsm' = fsm]_vars

\* C27 witness: a generator yielded a pair whose old state is not the new
\* state of the pair it yielded before, the other generator having moved
\* the cursor in between.
C27_Witness ==
    /\ last.op = "send" /\ last.result = "yield"
    /\ last.state # None
    /\ run[last.r].old_state # last.state
    /\ \E r \in Runners : r # last.r /\ run[r].pc = "suspended"
                          /\ run[r].new_state = run[last.r].old_state

\* A generator's step was rejected with InvalidState although its event has
\* an edge from the state it yielded last.
RejectedAfterOtherMoved ==
    /\ last.op = "send" /\ last.result = "InvalidState"
    /\ last.state # None
    /\ ~StateData(TabOf(1), last.state).terminal
    /\ run[last.r].event # None
    /\ HasEvent(TabOf(1), last.state, run[last.r].event)

\* C28: in the provisioning graph every state has an 'error' edge to the
\* error state: wherever the cursor is, test_event('error') is true and
\* process_event('error') lands in error.
C28_EveryStateCanError ==
    fsm[1].current # <<>>
    => /\ test_event(fsm, heap, 1, "error")
       /\ SubSeq(WouldLand(fsm, heap, "error"), 1, 2) = <<"ok", ERROR>>

\* C29: in a process_event that passed its checks the exit hook call comes
\* before the enter hook call, the enter hook called is the on_enter of the
\* destination, called with (destination, event), and every hook is called
\* while current_state is still the source; a process_event that fails its
\* checks calls no hook.
C29_HooksInOrder ==
    [][last'.op = "process_event"
       => /\ last'.result \notin {"ok", "HookError"} => calls' = <<>>
          /\ \A i, j \in DOMAIN calls' :
                (calls'[i].site = "on_exit" /\ calls'[j].site = "on_enter") => i < j
          /\ \A i \in DOMAIN calls' :
                /\ calls'[i].cursor = current_state(fsm[1])
                /\ calls'[i].event = last'.event
                /\ calls'[i].site = "on_enter"
                   => LET to == JumpOf(TabOf(1), current_state(fsm[1]), last'.event).name
                      IN /\ calls'[i].state = to
                         /\ calls'[i].hook = StateData(TabOf(1), to).on_enter
          /\ last'.result = "ok"
             => /\ Len(SiteCalls(calls', "on_enter"))
                      = IF StateData(TabOf(1), current_state(fsm'[1])).on_enter # None
                        THEN 1 ELSE 0
                /\ Len(SiteCalls(calls', "on_exit")) <= 1]_vars

\* C29 witness: a process_event called an exit hook and then an enter hook.
C29_Witness ==
    /\ last.op = "process_event" /\ last.result = "ok"
    /\ Len(calls) = 2
    /\ calls[1].site = "on_exit" /\ calls[2].site = "on_enter"
    /\ calls[2].state = current_state(fsm[1])
    /\ calls[2].cursor = last.before_current

\* C30: while a target is tracked and process_event lands on another state
\* than the target, target_state does not change, whatever target the
\* destination declares; target_state changes to a declared target only
\* when none was tracked or the tracked one was just reached.
C30_TrackedTargetKept ==
    [][(last'.op = "process_event" /\ last'.result = "ok")
       => /\ (/\ target_state(fsm[1]) # None
              /\ current_state(fsm'[1]) # target_state(fsm[1]))
             => target_state(fsm'[1]) = target_state(fsm[1])
          /\ (/\ target_state(fsm'[1]) # target_state(fsm[1])
              /\ target_state(fsm'[1]) # None)
             => /\ \/ target_state(fsm[1]) = None
                   \/ target_state(fsm[1]) = current_state(fsm'[1])
                /\ target_state(fsm'[1])
                      = StateData(TabOf(1), current_state(fsm'[1])).target]_vars

\* C30 witness: process_event landed on a state that declares a target of
\* its own while another target was tracked, and that one is still tracked.
C30_Witness ==
    /\ last.op = "process_event" /\ last.result = "ok"
    /\ last.before_target # None
    /\ current_state(fsm[1]) # last.before_target
    /\ StateData(TabOf(1), current_state(fsm[1])).target # None
    /\ StateData(TabOf(1), current_state(fsm[1])).target # last.before_target
    /\ target_state(fsm[1]) = last.before_target

\* C31: a successful process_event(event) from state s moves the cursor to
\* the end state d of the edge (s, event) and returns the reaction bound to
\* (d, event), or none, with the terminal flag of d; a reaction bound to d
\* under another event or bound to s is not returned.
C31_ReturnsReactionOfDestination ==
    [][(last'.op = "process_event" /\ last'.result = "ok")
       => \E d \in Names :
             /\ <<current_state(fsm[1]), last'.event, d>> \in Edges(TabOf(1))
             /\ current_state(fsm'[1]) = d
             /\ last'.ret_bool = StateData(TabOf(1), d).terminal
             /\ last'.ret_reaction =
                   IF last'.event \in DOMAIN StateData(TabOf(1), d).reactions
                   THEN <<StateData(TabOf(1), d).reactions[last'.event]>>
                   ELSE <<>>]_vars

\* C31 witness: process_event returned no reaction on landing in a state
\* that has a reaction bound under another event.
C31_Witness ==
    /\ last.op = "process_event" /\ last.result = "ok"
    /\ last.ret_reaction = <<>>
    /\ DOMAIN StateData(TabOf(1), current_state(fsm[1])).reactions # {}
    /\ last.event \notin DOMAIN StateData(TabOf(1), current_state(fsm[1])).reactions

\* C32: with one generator as the only driver, every pair (old, new) it
\* yields is an edge (old, event, new) of the table for the event just
\* applied, current_state is new when it yields, the old state of a pair is
\* the new state of the pair yielded before, and the old state of the first
\* pair is the start state when the generator initializes.
C32_YieldedPairsChain ==
    [][\A r \in Runners :
          (last'.op = "send" /\ last'.r = r /\ last'.result = "yield")
          => /\ <<run'[r].old_state, run'[r].event, run'[r].new_state>>
                   \in Edges(TabOf(run[r].m))
             /\ SiteCalls(calls', "process_event")[1].event = run'[r].event
             /\ current_state(fsm'[run[r].m]) = run'[r].new_state
             /\ run[r].pc = "suspended" => run'[r].old_state = run[r].new_state
             /\ (run[r].pc = "created" /\ run[r].initialize)
                => run'[r].old_state = fsm[run[r].m].start_state]_vars

\* C32 witness: the generator yielded a second pair, which leaves the state
\* the first pair entered for another one.
C32_Witness ==
    /\ last.op = "send" /\ last.result = "yield"
    /\ last.state # None
    /\ run[last.r].old_state = last.state
    /\ run[last.r].new_state # run[last.r].old_state
    /\ current_state(fsm[1]) = run[last.r].new_state

\* C33: a generator resumed without a sent event after a step old -event->
\* new into a non-terminal state with a reaction calls that reaction once,
\* with (old, new, event) and the arguments bound with it, before anything
\* else and with the cursor at new, and gives what it returns to the next
\* process_event; no other resume calls a reaction.
C33_ReactionDrivesNextStep ==
    [][\A r \in Runners :
          /\ (ResumedAfterStep(r) /\ last'.event = None /\ run[r].reaction # <<>>)
             => /\ Len(SiteCalls(calls', "reaction")) = 1
                /\ calls'[1].site = "reaction"
                /\ calls'[1].hook = run[r].reaction[1][1]
                /\ <<calls'[1].old, calls'[1].new, calls'[1].event>>
                      = <<run[r].old_state, run[r].new_state, run[r].event>>
                /\ <<calls'[1].args, calls'[1].kwargs>>
                      = <<run[r].reaction[1][2], run[r].reaction[1][3]>>
                /\ calls'[1].cursor = run[r].new_state
                /\ run[r].reaction
                      = <<StateData(TabOf(run[r].m), run[r].new_state).reactions[run[r].event]>>
                /\ last'.result # "ReactionError"
                   => /\ Len(calls') >= 2
                      /\ calls'[2].site = "process_event"
                      /\ calls'[2].event = calls'[1].returned
          /\ (/\ last'.op = "send" /\ last'.r = r
              /\ ~(run[r].pc = "suspended" /\ ~run[r].terminal /\ last'.event = None
                   /\ run[r].reaction # <<>>))
             => SiteCalls(calls', "reaction") = <<>>]_vars

\* C33 witness: a reaction was called and the event it returned was
\* processed.
C33_Witness ==
    /\ last.op = "send" /\ last.event = None /\ last.result = "yield"
    /\ last.ret_reaction # <<>>
    /\ Len(calls) >= 2
    /\ calls[1].site = "reaction" /\ calls[1].returned # calls[1].event
    /\ calls[2].site = "process_event" /\ calls[2].event = calls[1].returned
    /\ run[last.r].event = calls[1].returned

\* What a turn of run()'s loop can raise.
RunErrors == {"NotFound", "InvalidState", "KeyError", "HookError", "ReactionError"}

\* C34: run() returns without raising only when the generator ends by
\* itself, and then terminated is true; otherwise a turn of its loop either
\* yields or raises: NotFound at a non-terminal state without a reaction,
\* or what initialize, process_event, a hook or the reaction raised.
C34_RunReturnsAtTerminal ==
    [][\A r \in Runners :
          (/\ last'.op = "send" /\ last'.r = r /\ last'.event = None
           /\ run[r].pc \in {"created", "suspended"})
          => /\ last'.result \in {"yield", "StopIteration"} \cup RunErrors
             /\ (run'[r].pc = "finished") <=> (last'.result # "yield")
             /\ last'.result = "StopIteration"
                => /\ AtTerminal(fsm', heap', run[r].m)
                   /\ terminated(fsm'[run[r].m], heap'[fsm'[run[r].m].tab])
                   /\ fsm' = fsm
             /\ (/\ run[r].pc = "suspended"
                 /\ ~AtTerminal(fsm, heap, run[r].m)
                 /\ run[r].reaction = <<>>)
                => last'.result = "NotFound" /\ calls' = <<>>]_vars

\* C34 witness: run() returned: its generator ended by itself after a step
\* from another state into a terminal state.
C34_Witness ==
    /\ last.op = "send" /\ last.result = "StopIteration"
    /\ last.ret_bool
    /\ run[last.r].pc = "finished"
    /\ run[last.r].old_state # run[last.r].new_state
    /\ terminated(fsm[1], TabOf(1))

\* The (result, current_state, target_state) machine m of (F, H) reports
\* after each process_event of the sequence evs.
RECURSIVE Trajectory(_, _, _, _)
Trajectory(F, H, m, evs) ==
    IF evs = <<>> THEN <<>>
    ELSE LET o == process_event(F, H, m, Head(evs), TRUE, TRUE)
         IN <<<<o.result, current_state(o.fsm[m]), target_state(o.fsm[m])>>>>
               \o Trajectory(o.fsm, H, m, Tail(evs))

\* The event sequences machines are compared on.
DriveSeqs == UNION {[1..n -> Events] : n \in 0..MaxDrive}

\* C35: an instance on which initialize() just succeeded reports the same
\* current_state and target_state, now and after every event sequence, as a
\* fresh shallow copy of it that is initialized the same way.
C35_ReinitializeIsFresh ==
    (last.op = "initialize" /\ last.result = "ok")
    => LET c == copy(fsm, heap, 1, 2, TRUE)
           fresh == initialize(c.fsm, c.heap, 2, last.state)
       IN /\ fresh.result = "ok"
          /\ current_state(fsm[1]) = current_state(fresh.fsm[2])
          /\ target_state(fsm[1]) = target_state(fresh.fsm[2])
          /\ \A evs \in DriveSeqs :
                Trajectory(fsm, heap, 1, evs) = Trajectory(fresh.fsm, fresh.heap, 2, evs)

\* Machine 1 with its cursor put at state s.
AtState(s) == initialize(fsm, heap, 1, s).fsm

\* The states process_event can land in from state s.
Successors(s) ==
    {current_state(o.fsm[1]) :
        o \in {p \in {process_event(AtState(s), heap, 1, event, TRUE, TRUE) :
                         event \in ProvEvents} : p.result = "ok"}}

\* The states some sequence of events leads to from a state of S.
RECURSIVE Reachable(_)
Reachable(S) ==
    LET next == S \cup UNION {Successors(s) : s \in S}
    IN IF next = S THEN S ELSE Reachable(next)

\* The state names of a table.
StateNames(t) == {t.states[i].name : i \in DOMAIN t.states}

\* The trail began with initialize() on a machine that tracked no target.
FromInitialize == trail # <<>> /\ trail[1].target = None

\* C36: on the provisioning graph, driven from initialize() by
\* process_event, target_state is deploy-done whenever the cursor is in
\* deploying and deleted whenever the cursor is in deleting.
C36_WorkingStateTracksItsTarget ==
    (FromInitialize /\ fsm[1].current # <<>>)
    => /\ current_state(fsm[1]) = DEPLOYING => target_state(fsm[1]) = DEPLOYDONE
       /\ current_state(fsm[1]) = DELETING => target_state(fsm[1]) = DELETED

\* C37: every state of the provisioning graph is reached from no-state by
\* some sequence of events.
C37_EveryStateReachable ==
    fsm[1].current # <<>>
    => Reachable({NOSTATE}) = StateNames(TabOf(1))

\* C38: on the provisioning graph, once initialized, terminated is never
\* true, some event passes test_event, and some sequence of events leads
\* back to no-state.
C38_NeverStuck ==
    fsm[1].current # <<>>
    => /\ ~terminated(fsm[1], TabOf(1))
       /\ \E event \in ProvEvents : test_event(fsm, heap, 1, event)
       /\ NOSTATE \in Reachable({current_state(fsm[1])})

\* C38 witness: the cursor came back to no-state from deleting after a
\* deployment.
C38_Witness ==
    /\ last.op = "process_event" /\ last.result = "ok"
    /\ last.before_current = DELETING
    /\ current_state(fsm[1]) = NOSTATE
    /\ Len(trail) >= 4
    /\ \E i \in DOMAIN trail : trail[i].current = DEPLOYING

====
